---- MODULE Spec2Model ----
(***************************************************************************)
(* Model of the BMRS imbalance daily report (src/main.py): the Date class, *)
(* the fetch / normalise / reconcile pipeline of                           *)
(* output_report_and_plots_for_date, and the analytics functions.          *)
(*                                                                         *)
(* Instants are minutes since 1970-01-01T00:00Z.  A date string is a       *)
(* sequence of one-character strings.  A DataFrame is a record             *)
(* [columns, rows]: columns is the sequence of column names, rows the      *)
(* sequence of rows, each row a function from the column names to values.  *)
(***************************************************************************)
EXTENDS Integers, Sequences, FiniteSets, TLC

\* ------------------------------------------------------------------ bounds

\* Number of grid instants (taken alternately from the end and the start of
\* the day) that the primary batch may lack and a neighbour batch may hold.
MaxGap == 2

\* Longest series the analytics functions are applied to in SpecAnalytics.
MaxLen == 2

\* Number of consecutive days, from 2023-12-15 on, that the grid is generated
\* for in SpecGrid after the first.
GridDays == 91

\* ------------------------------------------------------- sequence helpers

RECURSIVE SumSeq(_)
SumSeq(s) == IF s = <<>> THEN 0 ELSE Head(s) + SumSeq(Tail(s))

Abs(x) == IF x < 0 THEN -x ELSE x

Range(s) == {s[i] : i \in DOMAIN s}

\* ------------------------------------------------------------- class Date

NewDate(year, month, day) == [year |-> year, month |-> month, day |-> day]

DigitChars == <<"0", "1", "2", "3", "4", "5", "6", "7", "8", "9">>

DigitValue(c) == CHOOSE v \in 0..9 : DigitChars[v + 1] = c

\* str(n) for n >= 0
RECURSIVE FormatInt(_)
FormatInt(n) ==
    IF n < 10 THEN <<DigitChars[n + 1]>>
    ELSE FormatInt(n \div 10) \o <<DigitChars[(n % 10) + 1]>>

\* f"{n:02d}"
FormatInt02(n) == IF n < 10 THEN <<"0">> \o FormatInt(n) ELSE FormatInt(n)

\* int(s) for a sequence of digit characters
RECURSIVE ParseInt(_)
ParseInt(s) ==
    IF Len(s) = 0 THEN 0
    ELSE 10 * ParseInt(SubSeq(s, 1, Len(s) - 1)) + DigitValue(s[Len(s)])

\* s.split(sep)
RECURSIVE Split(_, _)
Split(s, sep) ==
    IF \E i \in DOMAIN s : s[i] = sep
    THEN LET i == CHOOSE k \in DOMAIN s : s[k] = sep /\ \A j \in 1..(k - 1) : s[j] # sep
         IN  <<SubSeq(s, 1, i - 1)>> \o Split(SubSeq(s, i + 1, Len(s)), sep)
    ELSE <<s>>

to_string(d) ==
    FormatInt(d.year) \o <<"-">> \o FormatInt02(d.month) \o <<"-">> \o FormatInt02(d.day)

from_string(date_string) ==
    LET parts == Split(date_string, "-")
    IN  NewDate(ParseInt(parts[1]), ParseInt(parts[2]), ParseInt(parts[3]))

\* datetime(y, m, d) as days since 1970-01-01 (proleptic Gregorian)
DaysFromCivil(y, m, d) ==
    LET yy  == IF m <= 2 THEN y - 1 ELSE y
        era == yy \div 400
        yoe == yy - era * 400
        mp  == IF m > 2 THEN m - 3 ELSE m + 9
        doy == (153 * mp + 2) \div 5 + d - 1
        doe == yoe * 365 + yoe \div 4 - yoe \div 100 + doy
    IN  era * 146097 + doe - 719468

\* the inverse: Date.from_datetime of a day number
CivilFromDays(z0) ==
    LET z   == z0 + 719468
        era == z \div 146097
        doe == z - era * 146097
        yoe == (doe - doe \div 1460 + doe \div 36524 - doe \div 146096) \div 365
        doy == doe - (365 * yoe + yoe \div 4 - yoe \div 100)
        mp  == (5 * doy + 2) \div 153
        d   == doy - (153 * mp + 2) \div 5 + 1
        m   == IF mp < 10 THEN mp + 3 ELSE mp - 9
        y   == yoe + era * 400 + (IF m <= 2 THEN 1 ELSE 0)
    IN  NewDate(y, m, d)

yesterday(self) == CivilFromDays(DaysFromCivil(self.year, self.month, self.day) - 1)

\* faulty variant: the day before instead of the day after
tomorrow_minus_one(self) == CivilFromDays(DaysFromCivil(self.year, self.month, self.day) - 1)

tomorrow(self) == CivilFromDays(DaysFromCivil(self.year, self.month, self.day) + 1)

\* ------------------------------------------------------------- timestamps

MinutesPerDay == 24 * 60

\* pd.to_datetime of 'yyyy-mm-dd', 'yyyy-mm-dd hh:mm:ss' or
\* 'yyyy-mm-ddThh:mm:ssZ': minutes since the epoch
to_datetime(s) ==
    LET sep   == IF \E i \in DOMAIN s : s[i] = "T" THEN "T" ELSE " "
        parts == Split(s, sep)
        d     == from_string(parts[1])
        time  == IF Len(parts) > 1 THEN Split(parts[2], ":") ELSE <<<<"0">>, <<"0">>>>
    IN  DaysFromCivil(d.year, d.month, d.day) * MinutesPerDay
            + 60 * ParseInt(time[1]) + ParseInt(time[2])

\* the wire form of an instant, 'yyyy-mm-ddThh:mm:00Z'
IsoFormat(t) ==
    LET d == CivilFromDays(t \div MinutesPerDay)
        m == t % MinutesPerDay
    IN  to_string(d) \o <<"T">> \o FormatInt02(m \div 60) \o <<":">>
            \o FormatInt02(m % 60) \o <<":", "0", "0", "Z">>

\* Timestamp.hour
HourOf(t) == (t % MinutesPerDay) \div 60

\* ------------------------------------------------------------- DataFrames

NoneValue == [none |-> TRUE]

IsFrame(x) == "rows" \in DOMAIN x

DataFrame(columns, rows) == [columns |-> columns, rows |-> rows]

\* df[col] as the sequence of its values
Column(df, col) == [i \in DOMAIN df.rows |-> df.rows[i][col]]

\* df[mask]: the rows whose startTime is in the index `times`
RowsIsin(df, times) ==
    DataFrame(df.columns, SelectSeq(df.rows, LAMBDA r : r["startTime"] \in Range(times)))

\* pd.concat(frames, axis=0) of frames with the same columns
RECURSIVE concat(_)
concat(frames) ==
    IF Len(frames) = 1 THEN frames[1]
    ELSE DataFrame(frames[1].columns, frames[1].rows \o concat(Tail(frames)).rows)

\* df[name] = values: the frame with the column added or overwritten
SetColumn(df, name, values) ==
    DataFrame(
        IF name \in Range(df.columns) THEN df.columns ELSE Append(df.columns, name),
        [i \in DOMAIN df.rows |->
            [c \in (DOMAIN df.rows[i]) \cup {name} |->
                IF c = name THEN values[i] ELSE df.rows[i][c]]])

StartTimes(df) == Range(Column(df, "startTime"))

\* ------------------------------------------------ Record Source (inputs)

columns_of_interest ==
    <<"settlementDate", "settlementPeriod", "startTime", "createdDateTime",
      "systemSellPrice", "systemBuyPrice", "netImbalanceVolume">>

\* The columns of a usual response: the seven fields and one more.
WireColumns == Append(columns_of_interest, "unneededColumn")

WithoutColumn(c) == SelectSeq(columns_of_interest, LAMBDA x : x # c)

\* The other column sets a response may carry: exactly the seven fields, and
\* the seven fields with any one of them left out.
OtherColumnSets ==
    {columns_of_interest} \cup {WithoutColumn(c) : c \in Range(columns_of_interest)}

\* One record on the wire for the period starting at instant t, filed under
\* settlement date d.
WireRow(columns, d, t) ==
    LET slot == (t % MinutesPerDay) \div 30
        full == [settlementDate     |-> to_string(d),
                 settlementPeriod   |-> slot + 1,
                 startTime          |-> IsoFormat(t),
                 createdDateTime    |-> IsoFormat(t + 45),
                 systemSellPrice    |-> 40 + 5 * (slot % 4),
                 systemBuyPrice     |-> 38 + 4 * (slot % 3),
                 netImbalanceVolume |-> ((5 * slot) % 7) - 3,
                 unneededColumn     |-> 10]
    IN  [c \in Range(columns) |-> full[c]]

\* the instants of `times` in chronological order
RECURSIVE SortedSeq(_)
SortedSeq(times) ==
    IF times = {} THEN <<>>
    ELSE LET t == CHOOSE x \in times : \A y \in times : x <= y
         IN  <<t>> \o SortedSeq(times \ {t})

WireBatch(columns, d, times) ==
    LET order == SortedSeq(times)
    IN  DataFrame(columns, [i \in DOMAIN order |-> WireRow(columns, d, order[i])])

OkResponse(batch) == [status_code |-> 200, data |-> batch]

ErrorResponses == {[status_code |-> 404, data |-> DataFrame(<<>>, <<>>)]}

EmptyResponse == OkResponse(DataFrame(<<>>, <<>>))

DayStart(d) == DaysFromCivil(d.year, d.month, d.day) * MinutesPerDay

DayInstants(d) == {DayStart(d) + 30 * i : i \in 0..47}

\* The k-th instant of day d that local-time filing may displace: taken
\* alternately from the end and the start of the day.
GapInstant(d, k) ==
    IF k % 2 = 1 THEN DayStart(d) + 30 * (47 - (k - 1) \div 2)
    ELSE DayStart(d) + 30 * (k \div 2 - 1)

GapCandidates(d) == {GapInstant(d, k) : k \in 1..MaxGap}

\* instants of the neighbouring days that may be filed under d
ForeignCandidates(d) == {DayStart(d) - 30, DayStart(d) + MinutesPerDay}

\* What the source may answer for the primary date d: a failure, an empty
\* batch, the day's periods less some displaced ones and with or without the
\* neighbours' periods, or the whole day under another column set.
PrimaryResponses(d) ==
    ErrorResponses \cup {EmptyResponse}
        \cup {OkResponse(WireBatch(WireColumns, d, (DayInstants(d) \ miss) \cup foreign)) :
                miss \in SUBSET GapCandidates(d),
                foreign \in {{}, ForeignCandidates(d)}}
        \cup {OkResponse(WireBatch(cols, d, DayInstants(d))) : cols \in OtherColumnSets}

\* two periods of day n itself
OwnInstants(n) == {DayStart(n) + 12 * 60, DayStart(n) + 12 * 60 + 30}

\* What the source may answer for n, a neighbour of the primary date d: a
\* failure, an empty batch, or two periods of its own day with any of d's
\* displaced instants (all of them under another column set).
NeighbourResponses(n, d) ==
    ErrorResponses \cup {EmptyResponse}
        \cup {OkResponse(WireBatch(WireColumns, n, OwnInstants(n) \cup misplaced)) :
                misplaced \in SUBSET GapCandidates(d)}
        \cup {OkResponse(WireBatch(cols, n, OwnInstants(n) \cup GapCandidates(d))) :
                cols \in OtherColumnSets}

\* ------------------------------------------------- retrieval & processing

\* fetch_data_from_api_for_date_string, given the response to its request
fetch_data_from_api_for_date_string(response) ==
    IF response.status_code = 200
    THEN IF Len(response.data.rows) > 0 THEN response.data ELSE NoneValue
    ELSE NoneValue

date_columns == {"settlementDate", "startTime", "createdDateTime"}

transform_date_columns_to_datetime(df) ==
    DataFrame(df.columns,
        [i \in DOMAIN df.rows |->
            [c \in DOMAIN df.rows[i] |->
                IF c \in date_columns THEN to_datetime(df.rows[i][c]) ELSE df.rows[i][c]]])

Raised(error) == [raised |-> error]

IsRaised(x) == "raised" \in DOMAIN x

\* faulty variant: None read as an empty frame
Subscript_NoneAsEmpty(x) == IF IsFrame(x) THEN x ELSE DataFrame(columns_of_interest, <<>>)

\* The object a subscript x[...] reads: x itself, or the TypeError that
\* subscripting None raises.
Subscript(x) == IF IsFrame(x) THEN x ELSE Raised("TypeError")

\* faulty variant: the columns that are there, no KeyError
transform_data_from_api_lenient(df) ==
    LET present == SelectSeq(columns_of_interest, LAMBDA c : c \in Range(df.columns))
    IN  transform_date_columns_to_datetime(
            DataFrame(present,
                [i \in DOMAIN df.rows |-> [c \in Range(present) |-> df.rows[i][c]]]))

\* df[columns_of_interest]: KeyError when a column is not in the frame
transform_data_from_api(df) ==
    IF Range(columns_of_interest) \subseteq Range(df.columns)
    THEN transform_date_columns_to_datetime(
            DataFrame(columns_of_interest,
                [i \in DOMAIN df.rows |->
                    [c \in Range(columns_of_interest) |-> df.rows[i][c]]]))
    ELSE Raised("KeyError")

fetch_and_transform_data_for_date_string(response) ==
    LET df == fetch_data_from_api_for_date_string(response)
    IN  IF df # NoneValue THEN transform_data_from_api(df) ELSE NoneValue

\* faulty variant: the end instant left out
RECURSIVE date_range_exclusive(_, _, _)
date_range_exclusive(start, end, freq) ==
    IF start >= end THEN <<>>
    ELSE <<start>> \o date_range_exclusive(start + freq, end, freq)

RECURSIVE date_range(_, _, _)
date_range(start, end, freq) ==
    IF start > end THEN <<>> ELSE <<start>> \o date_range(start + freq, end, freq)

generate_expected_start_times(date) ==
    date_range(to_datetime(date \o <<" ", "0", "0", ":", "0", "0", ":", "0", "0">>),
               to_datetime(date \o <<" ", "2", "3", ":", "3", "0", ":", "0", "0">>),
               30)

\* expected_start_times[~expected_start_times.isin(df['startTime'])]
MissingTimes(expected_start_times, df) ==
    SelectSeq(expected_start_times, LAMBDA t : t \notin StartTimes(df))

\* faulty variant: the frame as fetched, foreign periods kept
FilterExpected_Unfiltered(df, expected_start_times) == df

\* df[df['startTime'].isin(expected_start_times)]
FilterExpected(df, expected_start_times) == RowsIsin(df, expected_start_times)

\* neighbour_df[neighbour_df['startTime'].isin(missing_settlement_times)]
MisplacedPeriods(neighbour_df, missing_settlement_times) ==
    RowsIsin(neighbour_df, missing_settlement_times)

\* faulty variant: the misplaced periods of D+1 are left out
CombinePeriods_NoTomorrow(misplaced_periods_yesterday, settlement_date_df, tomorrow_df, missing_settlement_times) ==
    IF Len(misplaced_periods_yesterday.rows) > 0
    THEN concat(<<misplaced_periods_yesterday, settlement_date_df>>)
    ELSE settlement_date_df

\* add_missing_settlement_periods from the answer to the D+1 fetch onwards
CombinePeriods(misplaced_periods_yesterday, settlement_date_df, tomorrow_df, missing_settlement_times) ==
    IF tomorrow_df # NoneValue
    THEN LET misplaced_periods_tomorrow ==
                 MisplacedPeriods(tomorrow_df, missing_settlement_times)
         IN  IF Len(misplaced_periods_yesterday.rows) > 0
             THEN concat(<<misplaced_periods_yesterday, settlement_date_df,
                           misplaced_periods_tomorrow>>)
             ELSE concat(<<settlement_date_df, misplaced_periods_tomorrow>>)
    ELSE IF Len(misplaced_periods_yesterday.rows) > 0
         THEN concat(<<misplaced_periods_yesterday, settlement_date_df>>)
         ELSE settlement_date_df

\* faulty variant: the periods missing from the primary batch
RecheckMissing_OfInput(expected_start_times, df, filtered_data) ==
    MissingTimes(expected_start_times, df)

\* the second missing_times of switch_timezone_to_utc, after gap-filling
RecheckMissing(expected_start_times, df, filtered_data) ==
    MissingTimes(expected_start_times, filtered_data)

\* faulty variant: the neighbours are always fetched
NeedsGapFilling_Always(missing_times) == TRUE

\* whether switch_timezone_to_utc calls add_missing_settlement_periods
NeedsGapFilling(missing_times) == Len(missing_times) > 0

\* ------------------------------------------------------------ calculations

\* position of the first maximum of a non-empty sequence
RECURSIVE ArgMaxFrom(_, _, _)
ArgMaxFrom(values, i, best) ==
    IF i > Len(values) THEN best
    ELSE ArgMaxFrom(values, i + 1, IF values[i] > values[best] THEN i ELSE best)

\* faulty variant: the position of the last maximum
idxmax_last(values) ==
    CHOOSE i \in DOMAIN values :
        /\ \A j \in DOMAIN values : values[j] <= values[i]
        /\ \A j \in DOMAIN values : j > i => values[j] < values[i]

idxmax(values) == ArgMaxFrom(values, 2, 1)

MaxOf(values) == values[idxmax(values)]

\* df.groupby(by)[col].sum(): the keys in ascending order, and their sums
GroupBySum(df, by, col) ==
    LET keys == SortedSeq(Range(Column(df, by)))
    IN  [index  |-> keys,
         values |-> [k \in DOMAIN keys |->
                        SumSeq(Column(DataFrame(df.columns,
                                   SelectSeq(df.rows, LAMBDA r : r[by] = keys[k])), col))]]

HasColumns(df, names) == names \subseteq Range(df.columns)

\* A call that changes the frame passed in yields [df |-> the frame as the call
\* leaves it] with value |-> its result or raised |-> its exception.
generate_max_net_abs_imbalance_volume_hour(df) ==
    IF ~HasColumns(df, {"startTime"})
    THEN [df |-> df, raised |-> "KeyError"]
    ELSE IF ~HasColumns(df, {"netImbalanceVolume"})
    THEN [df |-> SetColumn(df, "Hour",
                    [i \in DOMAIN df.rows |-> HourOf(df.rows[i]["startTime"])]),
          raised |-> "KeyError"]
    ELSE LET df1 == SetColumn(df, "Hour",
                        [i \in DOMAIN df.rows |-> HourOf(df.rows[i]["startTime"])])
             df2 == SetColumn(df1, "absNetImbalanceVolume",
                        [i \in DOMAIN df.rows |-> Abs(df.rows[i]["netImbalanceVolume"])])
             grouped_df == GroupBySum(df2, "Hour", "absNetImbalanceVolume")
         IN  IF Len(df.rows) = 0
             THEN [df |-> df2, raised |-> "ValueError"]
             ELSE [df |-> df2,
                   value |-> <<grouped_df.index[idxmax(grouped_df.values)],
                               MaxOf(grouped_df.values)>>]

\* The function takes no parameter: a call that passes a series is a
\* TypeError.  Its body assigns df, so df is a local of it, and its first
\* statement reads that local before anything is bound to it.
generate_max_abs_imbalance_volume_period_hour(args) ==
    IF Len(args) # 0 THEN Raised("TypeError") ELSE Raised("UnboundLocalError")

\* faulty variant: the buy price whatever the sign
ImbalanceCost_BuyPrice(row) == row["netImbalanceVolume"] * row["systemBuyPrice"]

\* np.where(niv > 0, niv * sell, niv * buy) for one row
ImbalanceCost(row) ==
    IF row["netImbalanceVolume"] > 0
    THEN row["netImbalanceVolume"] * row["systemSellPrice"]
    ELSE row["netImbalanceVolume"] * row["systemBuyPrice"]

\* faulty variant: the costs are written over the volumes
calculate_total_imbalance_cost_overwriting(df) ==
    IF ~HasColumns(df, {"netImbalanceVolume", "systemSellPrice", "systemBuyPrice"})
    THEN [df |-> df, raised |-> "KeyError"]
    ELSE LET df1 == SetColumn(df, "netImbalanceVolume",
                        [i \in DOMAIN df.rows |-> ImbalanceCost(df.rows[i])])
         IN  [df |-> df1, value |-> SumSeq(Column(df1, "netImbalanceVolume"))]

calculate_total_imbalance_cost(df) ==
    IF ~HasColumns(df, {"netImbalanceVolume", "systemSellPrice", "systemBuyPrice"})
    THEN [df |-> df, raised |-> "KeyError"]
    ELSE LET df1 == SetColumn(df, "ImbalanceCost",
                        [i \in DOMAIN df.rows |-> ImbalanceCost(df.rows[i])])
         IN  [df |-> df1, value |-> SumSeq(Column(df1, "ImbalanceCost"))]

\* f"{hour:02d}:{minute:02d}" of each startTime, as the 'Time' column
WithTimeColumn(df) ==
    SetColumn(df, "Time",
        [i \in DOMAIN df.rows |->
            FormatInt02(HourOf(df.rows[i]["startTime"])) \o <<":">>
                \o FormatInt02(df.rows[i]["startTime"] % 60)])

\* ------------------------------------------------------------------ state

VARIABLES
    pc,                          \* where output_report_and_plots_for_date is
    date,                        \* its argument `date`
    use_local_timezone,          \* its argument `use_local_timezone`
    fetched,                     \* the requests sent so far, with how each was answered
    response,                    \* the answer to the latest request
    df,                          \* its local `df`
    input_df,                    \* the `df` passed to switch_timezone_to_utc
    expected_start_times,        \* locals of switch_timezone_to_utc
    filtered_data,
    missing_times,
    misplaced_periods_yesterday, \* local of add_missing_settlement_periods
    reported,                    \* the missing periods switch_timezone_to_utc printed
    error,                       \* the exception that ended the run
    total_imbalance_cost,        \* the value report_total_imbalance_cost printed
    max_hour,                    \* the tuple report_max_net_abs_imbalance_volume_hour got
    called,                      \* SpecAnalytics: the function applied to df
    arg,                         \* SpecAnalytics: df as it was passed in
    returned                     \* SpecAnalytics: what the call returned or raised

vars == <<pc, date, use_local_timezone, fetched, response, df, input_df,
          expected_start_times, filtered_data, missing_times,
          misplaced_periods_yesterday, reported, error, total_imbalance_cost,
          max_hour, called, arg, returned>>

reconcilerVars == <<input_df, expected_start_times, filtered_data, missing_times,
                    misplaced_periods_yesterday, reported>>

reportVars == <<total_imbalance_cost, max_hour>>

analyticsVars == <<called, arg, returned>>

\* a local that is not assigned yet
Unbound == [unbound |-> TRUE]

NotReported == [printed |-> FALSE]

Reported(times) == [printed |-> TRUE, missing_times |-> times]

\* the dates the report is run for (main runs it for 2024-01-01)
InputDates == {NewDate(2024, 1, 1), NewDate(2024, 3, 1), NewDate(2024, 10, 27)}

Outcome(resp) ==
    IF resp.status_code # 200 THEN "error"
    ELSE IF Len(resp.data.rows) = 0 THEN "empty" ELSE "data"

Request(date_string, resp) == [date |-> date_string, outcome |-> Outcome(resp)]

Init ==
    /\ pc = "start"
    /\ date \in {to_string(d) : d \in InputDates}
    /\ use_local_timezone \in BOOLEAN
    /\ fetched = <<>>
    /\ response = Unbound
    /\ df = Unbound
    /\ input_df = Unbound
    /\ expected_start_times = Unbound
    /\ filtered_data = Unbound
    /\ missing_times = Unbound
    /\ misplaced_periods_yesterday = Unbound
    /\ reported = NotReported
    /\ error = "none"
    /\ total_imbalance_cost = Unbound
    /\ max_hour = Unbound
    /\ called = "none"
    /\ arg = Unbound
    /\ returned = Unbound

Raise(e) ==
    /\ pc' = "failed"
    /\ error' = e

\* output_report_and_plots_for_date: df = fetch_and_transform_data_for_date_string(date)
FetchPrimary ==
    /\ pc = "start"
    /\ \E resp \in PrimaryResponses(from_string(date)) :
        LET r == fetch_and_transform_data_for_date_string(resp)
        IN  /\ response' = resp
            /\ fetched' = Append(fetched, Request(date, resp))
            /\ IF IsRaised(r)
               THEN Raise(r.raised) /\ UNCHANGED df
               ELSE pc' = "fetched" /\ df' = r /\ UNCHANGED error
    /\ UNCHANGED <<date, use_local_timezone, reconcilerVars, reportVars, analyticsVars>>

\* use_local_timezone: switch_timezone_to_utc is not called
KeepLocalTimezone ==
    /\ pc = "fetched"
    /\ use_local_timezone
    /\ pc' = "reconciled"
    /\ UNCHANGED <<date, use_local_timezone, fetched, response, df, error,
                   reconcilerVars, reportVars, analyticsVars>>

\* switch_timezone_to_utc up to its call of add_missing_settlement_periods,
\* or to its return when no period is missing
SwitchTimezoneToUtc ==
    /\ pc = "fetched"
    /\ ~use_local_timezone
    /\ input_df' = df
    /\ expected_start_times' = generate_expected_start_times(date)
    /\ LET frame == Subscript(df)
       IN  IF IsRaised(frame)
           THEN /\ Raise(frame.raised)
                /\ UNCHANGED <<df, filtered_data, missing_times>>
           ELSE /\ filtered_data' = FilterExpected(frame, expected_start_times')
                /\ missing_times' = MissingTimes(expected_start_times', frame)
                /\ IF NeedsGapFilling(missing_times')
                   THEN pc' = "add_missing" /\ UNCHANGED df
                   ELSE pc' = "reconciled" /\ df' = filtered_data'
                /\ UNCHANGED error
    /\ UNCHANGED <<date, use_local_timezone, fetched, response,
                   misplaced_periods_yesterday, reported, reportVars, analyticsVars>>

\* add_missing_settlement_periods: the D-1 fetch and its misplaced periods
FetchYesterday ==
    /\ pc = "add_missing"
    /\ LET d == from_string(date)
           n == to_string(yesterday(d))
       IN  \E resp \in NeighbourResponses(from_string(n), d) :
            LET yesterday_df == fetch_and_transform_data_for_date_string(resp)
            IN  /\ response' = resp
                /\ fetched' = Append(fetched, Request(n, resp))
                /\ IF IsRaised(yesterday_df)
                   THEN Raise(yesterday_df.raised) /\ UNCHANGED misplaced_periods_yesterday
                   ELSE IF IsRaised(Subscript(yesterday_df))
                   THEN /\ Raise(Subscript(yesterday_df).raised)
                        /\ UNCHANGED misplaced_periods_yesterday
                   ELSE /\ misplaced_periods_yesterday' =
                               MisplacedPeriods(Subscript(yesterday_df), missing_times)
                        /\ pc' = "yesterday_done"
                        /\ UNCHANGED error
    /\ UNCHANGED <<date, use_local_timezone, df, input_df, expected_start_times,
                   filtered_data, missing_times, reported, reportVars, analyticsVars>>

\* add_missing_settlement_periods: the D+1 fetch and the combined frame; then
\* the rest of switch_timezone_to_utc and the assignment of its result to df
FetchTomorrow ==
    /\ pc = "yesterday_done"
    /\ LET d == from_string(date)
           n == to_string(tomorrow(d))
       IN  \E resp \in NeighbourResponses(from_string(n), d) :
            LET tomorrow_df == fetch_and_transform_data_for_date_string(resp)
            IN  /\ response' = resp
                /\ fetched' = Append(fetched, Request(n, resp))
                /\ IF IsRaised(tomorrow_df)
                   THEN /\ Raise(tomorrow_df.raised)
                        /\ UNCHANGED <<df, filtered_data, missing_times, reported>>
                   ELSE /\ filtered_data' =
                               CombinePeriods(misplaced_periods_yesterday, filtered_data,
                                              tomorrow_df, missing_times)
                        /\ missing_times' =
                               RecheckMissing(expected_start_times, input_df, filtered_data')
                        /\ reported' = IF Len(missing_times') > 0
                                       THEN Reported(missing_times') ELSE NotReported
                        /\ df' = filtered_data'
                        /\ pc' = "reconciled"
                        /\ UNCHANGED error
    /\ UNCHANGED <<date, use_local_timezone, input_df, expected_start_times,
                   misplaced_periods_yesterday, reportVars, analyticsVars>>

\* report_total_imbalance_cost(df)
ReportTotalImbalanceCost ==
    /\ pc = "reconciled"
    /\ IF IsRaised(Subscript(df))
       THEN Raise(Subscript(df).raised) /\ UNCHANGED <<df, total_imbalance_cost>>
       ELSE LET r == calculate_total_imbalance_cost(Subscript(df))
            IN  /\ df' = r.df
                /\ IF IsRaised(r)
                   THEN Raise(r.raised) /\ UNCHANGED total_imbalance_cost
                   ELSE /\ total_imbalance_cost' = r.value
                        /\ pc' = "cost_reported"
                        /\ UNCHANGED error
    /\ UNCHANGED <<date, use_local_timezone, fetched, response, reconcilerVars,
                   max_hour, analyticsVars>>

\* report_max_net_abs_imbalance_volume_hour(df)
ReportMaxHour ==
    /\ pc = "cost_reported"
    /\ LET r == generate_max_net_abs_imbalance_volume_hour(df)
       IN  /\ df' = r.df
           /\ IF IsRaised(r)
              THEN Raise(r.raised) /\ UNCHANGED max_hour
              ELSE max_hour' = r.value /\ pc' = "hour_reported" /\ UNCHANGED error
    /\ UNCHANGED <<date, use_local_timezone, fetched, response, reconcilerVars,
                   total_imbalance_cost, analyticsVars>>

\* generate_price_and_imbalance_cost_plots_from_dataframe(date, df)
Plot ==
    /\ pc = "hour_reported"
    /\ df' = WithTimeColumn(df)
    /\ pc' = "done"
    /\ UNCHANGED <<date, use_local_timezone, fetched, response, error, reconcilerVars,
                   reportVars, analyticsVars>>

Next ==
    \/ FetchPrimary
    \/ KeepLocalTimezone
    \/ SwitchTimezoneToUtc
    \/ FetchYesterday
    \/ FetchTomorrow
    \/ ReportTotalImbalanceCost
    \/ ReportMaxHour
    \/ Plot

Spec == Init /\ [][Next]_vars

\* ------------------------------------------- the analytics on their own

\* the day of the series in test_pytest.py
TestTime(hour, minute) ==
    to_datetime(IsoFormat(DayStart(NewDate(2024, 10, 14)) + 60 * hour + minute))

HourFrame(times, volumes) ==
    DataFrame(<<"startTime", "netImbalanceVolume">>,
        [i \in DOMAIN times |-> [startTime |-> times[i], netImbalanceVolume |-> volumes[i]]])

CostFrame(volumes, sell, buy) ==
    DataFrame(<<"netImbalanceVolume", "systemSellPrice", "systemBuyPrice">>,
        [i \in DOMAIN volumes |->
            [netImbalanceVolume |-> volumes[i], systemSellPrice |-> sell[i],
             systemBuyPrice |-> buy[i]]])

HourTestCase1 ==
    HourFrame(<<TestTime(0, 0), TestTime(1, 0), TestTime(1, 30), TestTime(2, 0)>>,
              <<5, -3, 4, 2>>)

HourTestCase2 == HourFrame(<<TestTime(4, 0)>>, <<2>>)

HourTestCase3 ==
    HourFrame(<<TestTime(0, 0), TestTime(0, 30), TestTime(1, 0), TestTime(1, 30)>>,
              <<-1, -2, -3, -4>>)

CostTestCase1 == CostFrame(<<10, -5, 15>>, <<100, 200, 150>>, <<80, 180, 120>>)

CostTestCase2 == CostFrame(<<10, 5, 15>>, <<100, 200, 150>>, <<80, 180, 120>>)

CostTestCase3 == CostFrame(<<-10, -5, -15>>, <<100, 200, 150>>, <<80, 180, 120>>)

TestFrames ==
    {HourTestCase1, HourTestCase2, HourTestCase3,
     CostTestCase1, CostTestCase2, CostTestCase3}

\* the rows of the generated series: four instants in three clock hours,
\* volumes of either sign and zero, two pairs of (sell, buy) prices
SeriesRows ==
    {[startTime |-> t, netImbalanceVolume |-> v,
      systemSellPrice |-> p[1], systemBuyPrice |-> p[2]] :
        t \in {TestTime(0, 0), TestTime(0, 30), TestTime(1, 0), TestTime(23, 30)},
        v \in {-2, 0, 1, 2},
        p \in {<<3, 5>>, <<7, 2>>}}

SeriesFrames ==
    {DataFrame(<<"startTime", "netImbalanceVolume", "systemSellPrice", "systemBuyPrice">>,
               rows) : rows \in UNION {[1..n -> SeriesRows] : n \in 0..MaxLen}}

\* a series with the instants but not the volumes
PartialFrames ==
    {DataFrame(<<"startTime">>, <<[startTime |-> TestTime(0, 30)], [startTime |-> TestTime(5, 0)]>>)}

InitAnalytics ==
    /\ pc = "analytics"
    /\ date = to_string(NewDate(2024, 10, 14))
    /\ use_local_timezone = FALSE
    /\ fetched = <<>>
    /\ response = Unbound
    /\ df \in SeriesFrames \cup TestFrames \cup PartialFrames
    /\ input_df = Unbound
    /\ expected_start_times = Unbound
    /\ filtered_data = Unbound
    /\ missing_times = Unbound
    /\ misplaced_periods_yesterday = Unbound
    /\ reported = NotReported
    /\ error = "none"
    /\ total_imbalance_cost = Unbound
    /\ max_hour = Unbound
    /\ called = "none"
    /\ arg = Unbound
    /\ returned = Unbound

Outcome_of(r) == IF IsRaised(r) THEN Raised(r.raised) ELSE [value |-> r.value]

pipelineVars == <<pc, date, use_local_timezone, fetched, response, error,
                  reconcilerVars, reportVars>>

CallCalculateTotalImbalanceCost ==
    /\ pc = "analytics"
    /\ called = "none"
    /\ LET r == calculate_total_imbalance_cost(df)
       IN  /\ called' = "calculate_total_imbalance_cost"
           /\ arg' = df
           /\ df' = r.df
           /\ returned' = Outcome_of(r)
    /\ UNCHANGED pipelineVars

CallGenerateMaxNetAbsImbalanceVolumeHour ==
    /\ pc = "analytics"
    /\ called = "none"
    /\ LET r == generate_max_net_abs_imbalance_volume_hour(df)
       IN  /\ called' = "generate_max_net_abs_imbalance_volume_hour"
           /\ arg' = df
           /\ df' = r.df
           /\ returned' = Outcome_of(r)
    /\ UNCHANGED pipelineVars

\* the call with the series, and the call with no argument
CallGenerateMaxAbsImbalanceVolumePeriodHour ==
    /\ pc = "analytics"
    /\ called = "none"
    /\ \E args \in {<<>>, <<df>>} :
        /\ called' = "generate_max_abs_imbalance_volume_period_hour"
        /\ arg' = df
        /\ returned' = generate_max_abs_imbalance_volume_period_hour(args)
    /\ UNCHANGED <<df, pipelineVars>>

NextAnalytics ==
    \/ CallCalculateTotalImbalanceCost
    \/ CallGenerateMaxNetAbsImbalanceVolumeHour
    \/ CallGenerateMaxAbsImbalanceVolumePeriodHour

SpecAnalytics == InitAnalytics /\ [][NextAnalytics]_vars

\* ------------------------------------------------- the grid on its own

\* the dates the grid is generated for: they span the end of a year and the
\* 29th of February
GridDates ==
    {to_string(CivilFromDays(DaysFromCivil(2023, 12, 15) + k)) : k \in 0..GridDays}

InitGrid ==
    /\ pc = "grid"
    /\ date \in GridDates
    /\ use_local_timezone = FALSE
    /\ fetched = <<>>
    /\ response = Unbound
    /\ df = Unbound
    /\ input_df = Unbound
    /\ expected_start_times = Unbound
    /\ filtered_data = Unbound
    /\ missing_times = Unbound
    /\ misplaced_periods_yesterday = Unbound
    /\ reported = NotReported
    /\ error = "none"
    /\ total_imbalance_cost = Unbound
    /\ max_hour = Unbound
    /\ called = "none"
    /\ arg = Unbound
    /\ returned = Unbound

CallGenerateExpectedStartTimes ==
    /\ pc = "grid"
    /\ expected_start_times' = generate_expected_start_times(date)
    /\ pc' = "grid_done"
    /\ UNCHANGED <<date, use_local_timezone, fetched, response, df, input_df,
                   filtered_data, missing_times, misplaced_periods_yesterday, reported,
                   error, reportVars, analyticsVars>>

NextGrid == CallGenerateExpectedStartTimes

SpecGrid == InitGrid /\ [][NextGrid]_vars

\* ------------------------------------------------------------------ claims

\* Grid(D): the 48 half-hour instants of the UTC day of `date`
Grid == DayInstants(from_string(date))

\* switch_timezone_to_utc has returned and its result is in df
ReconcilerReturned ==
    /\ ~use_local_timezone
    /\ pc \in {"reconciled", "cost_reported", "hour_reported", "done"}

LatestOutcome == fetched[Len(fetched)].outcome

\* C1: every record of the series the Reconciler returns starts at an instant
\* of Grid(D), whatever the three batches hold.
C1_NoForeignPeriods == ReconcilerReturned => StartTimes(df) \subseteq Grid

\* C1 witness: the primary batch held foreign periods, both neighbours were
\* fetched and the returned series holds periods taken from them.
C1_Witness ==
    /\ ReconcilerReturned
    /\ Len(fetched) = 3
    /\ ~(StartTimes(input_df) \subseteq Grid)
    /\ Len(df.rows) > Cardinality(StartTimes(input_df) \cap Grid)

\* C2: a neighbour fetch that is answered with a failure or an empty batch
\* does not abort the reconciliation.
C2_NeighbourFailureNotFatal ==
    (Len(fetched) >= 2 /\ LatestOutcome # "data") => pc # "failed"

PrimaryAbsent == Len(fetched) >= 1 /\ fetched[1].outcome # "data"

\* C3: once the primary fetch is answered with a failure or an empty batch,
\* every further step ends the run in failure (the local-timezone path takes
\* one step to reach the report that fails), no other fetch is issued and
\* neither the total cost nor the peak hour is produced.
C3_PrimaryAbsenceIsFatal ==
    [][PrimaryAbsent =>
        /\ fetched' = fetched
        /\ total_imbalance_cost' = Unbound
        /\ max_hour' = Unbound
        /\ pc' = IF pc = "fetched" /\ use_local_timezone THEN "reconciled" ELSE "failed"]_vars

\* C3 witness: the primary fetch was absent and the run has failed.
C3_Witness == PrimaryAbsent /\ pc = "failed" /\ error = "TypeError" /\ ~use_local_timezone

\* C4: when the startTimes of the primary batch are exactly Grid(D), the
\* Reconciler returns the batch unchanged, records and order, and fetches no
\* neighbour; a neighbour is fetched only when a grid instant is missing
\* from the primary batch.
C4_Idempotence ==
    /\ (ReconcilerReturned /\ StartTimes(input_df) = Grid) =>
            /\ Len(fetched) = 1
            /\ pc = "reconciled" => df = input_df
    /\ Len(fetched) > 1 => Grid \ StartTimes(input_df) # {}

\* C4 witness: a complete primary batch has been reconciled.
C4_Witness ==
    /\ ReconcilerReturned
    /\ pc = "reconciled"
    /\ StartTimes(input_df) = Grid
    /\ Len(df.rows) = 48

\* C5: the Reconciler prints the missing periods exactly when Grid(D) less
\* the startTimes of the series it returns is not empty, and what it prints
\* is that difference; once both neighbour fetches are answered, only a batch
\* that lacks a required field makes it raise.
C5_ResidualReported ==
    /\ ReconcilerReturned =>
            /\ reported.printed <=> (Grid \ StartTimes(df) # {})
            /\ reported.printed => Range(reported.missing_times) = Grid \ StartTimes(df)
    /\ (Len(fetched) = 3 /\ pc = "failed") =>
            /\ error = "KeyError"
            /\ LatestOutcome = "data"

\* C5 witness: the primary batch holds 46 of the 48 periods, D-1 holds one of
\* the two others and the D+1 fetch fails: 47 periods are returned and one
\* missing period is printed.
C5_Witness ==
    /\ ReconcilerReturned
    /\ Len(fetched) = 3
    /\ LatestOutcome # "data"
    /\ Cardinality(StartTimes(input_df) \cap Grid) = 46
    /\ Len(df.rows) = 47
    /\ reported.printed
    /\ Len(reported.missing_times) = 1

\* C6: the series the Reconciler returns never holds two records with the
\* same startTime, so a complete series has exactly 48 records.
C6_NoDuplicates ==
    ReconcilerReturned =>
        /\ Cardinality(StartTimes(df)) = Len(df.rows)
        /\ StartTimes(df) = Grid => Len(df.rows) = 48

\* the cost of one period as the cost sign law states it
PerPeriodCost(row) ==
    CASE row["netImbalanceVolume"] > 0 ->
            row["netImbalanceVolume"] * row["systemSellPrice"]
      [] row["netImbalanceVolume"] < 0 ->
            row["netImbalanceVolume"] * row["systemBuyPrice"]
      [] OTHER -> 0

CostColumns == {"netImbalanceVolume", "systemSellPrice", "systemBuyPrice"}

\* C7: calculate_total_imbalance_cost returns the sum of the per-period costs
\* of the series, sell price for a positive volume, buy price for a negative
\* one, nothing for a zero one; the series of the example gives 2350.
C7_TotalCost ==
    (called = "calculate_total_imbalance_cost" /\ HasColumns(arg, CostColumns)) =>
        /\ returned = [value |-> SumSeq([i \in DOMAIN arg.rows |-> PerPeriodCost(arg.rows[i])])]
        /\ arg = CostTestCase1 => returned = [value |-> 2350]

\* C7 witness: the function was applied to the series of the example.
C7_Witness ==
    /\ called = "calculate_total_imbalance_cost"
    /\ arg = CostTestCase1
    /\ returned = [value |-> 2350]

HourColumns == {"startTime", "netImbalanceVolume"}

HoursOf(frame) == {HourOf(frame.rows[i]["startTime"]) : i \in DOMAIN frame.rows}

\* the sum of |netImbalanceVolume| of the records of `frame` starting in hour h
HourSum(frame, h) ==
    SumSeq([i \in DOMAIN frame.rows |->
                IF HourOf(frame.rows[i]["startTime"]) = h
                THEN Abs(frame.rows[i]["netImbalanceVolume"]) ELSE 0])

\* the lowest hour, among those the series has records in, with the largest sum
PeakSummedHour(frame) ==
    LET h == CHOOSE x \in HoursOf(frame) :
                 /\ \A y \in HoursOf(frame) : HourSum(frame, y) <= HourSum(frame, x)
                 /\ \A y \in HoursOf(frame) : HourSum(frame, y) = HourSum(frame, x) => x <= y
    IN  <<h, HourSum(frame, h)>>

Permuted(frame, p) == DataFrame(frame.columns, [i \in DOMAIN frame.rows |-> frame.rows[p[i]]])

RowOrders(frame) ==
    {p \in [DOMAIN frame.rows -> DOMAIN frame.rows] :
        \A i, j \in DOMAIN frame.rows : p[i] = p[j] => i = j}

\* C8: for a non-empty series generate_max_net_abs_imbalance_volume_hour
\* returns the largest per-hour sum of |netImbalanceVolume| and the lowest
\* hour that has it, and returns the same for every order of the records.
C8_PeakSummedHour ==
    (/\ called = "generate_max_net_abs_imbalance_volume_hour"
     /\ HasColumns(arg, HourColumns)
     /\ Len(arg.rows) > 0) =>
        /\ returned = [value |-> PeakSummedHour(arg)]
        /\ \A p \in RowOrders(arg) :
              generate_max_net_abs_imbalance_volume_hour(Permuted(arg, p)).value
                  = returned.value
        /\ arg = HourTestCase1 => returned = [value |-> <<1, 7>>]

\* C8 witness: two hours tie for the largest sum and the later one comes
\* first in the series.
C8_Witness ==
    /\ called = "generate_max_net_abs_imbalance_volume_hour"
    /\ Len(arg.rows) = 2
    /\ HourOf(arg.rows[1]["startTime"]) > HourOf(arg.rows[2]["startTime"])
    /\ Abs(arg.rows[1]["netImbalanceVolume"]) = Abs(arg.rows[2]["netImbalanceVolume"])
    /\ arg.rows[1]["netImbalanceVolume"] # 0
    /\ returned = [value |-> <<HourOf(arg.rows[2]["startTime"]),
                               Abs(arg.rows[2]["netImbalanceVolume"])>>]

\* the hour of the first record with the largest |netImbalanceVolume|, and
\* that volume
PeakSlot(frame) ==
    LET i == CHOOSE x \in DOMAIN frame.rows :
                 /\ \A y \in DOMAIN frame.rows :
                        Abs(frame.rows[y]["netImbalanceVolume"])
                            <= Abs(frame.rows[x]["netImbalanceVolume"])
                 /\ \A y \in 1..(x - 1) :
                        Abs(frame.rows[y]["netImbalanceVolume"])
                            < Abs(frame.rows[x]["netImbalanceVolume"])
    IN  <<HourOf(frame.rows[i]["startTime"]), Abs(frame.rows[i]["netImbalanceVolume"])>>

\* C9: applied to a non-empty series, the peak-slot operation returns the
\* hour of the first record with the largest |netImbalanceVolume| and that
\* volume.
C9_PeakSlotHour ==
    (/\ called = "generate_max_abs_imbalance_volume_period_hour"
     /\ HasColumns(arg, HourColumns)
     /\ Len(arg.rows) > 0) =>
        returned = [value |-> PeakSlot(arg)]

RequiredFields ==
    {"settlementDate", "settlementPeriod", "startTime", "createdDateTime",
     "systemSellPrice", "systemBuyPrice", "netImbalanceVolume"}

IsLeapYear(y) == (y % 4 = 0 /\ y % 100 # 0) \/ y % 400 = 0

MonthLength(y, m) ==
    IF m = 2 THEN (IF IsLeapYear(y) THEN 29 ELSE 28)
    ELSE IF m \in {4, 6, 9, 11} THEN 30 ELSE 31

RECURSIVE DaysBeforeYear(_)
DaysBeforeYear(y) ==
    IF y <= 1970 THEN 0
    ELSE DaysBeforeYear(y - 1) + (IF IsLeapYear(y - 1) THEN 366 ELSE 365)

RECURSIVE DaysBeforeMonth(_, _)
DaysBeforeMonth(y, m) ==
    IF m <= 1 THEN 0 ELSE DaysBeforeMonth(y, m - 1) + MonthLength(y, m - 1)

\* minutes from 1970-01-01T00:00Z to the UTC midnight of the date written in s
UtcMidnight(s) ==
    LET y == 1000 * DigitValue(s[1]) + 100 * DigitValue(s[2])
                 + 10 * DigitValue(s[3]) + DigitValue(s[4])
        m == 10 * DigitValue(s[6]) + DigitValue(s[7])
        d == 10 * DigitValue(s[9]) + DigitValue(s[10])
    IN  (DaysBeforeYear(y) + DaysBeforeMonth(y, m) + d - 1) * 24 * 60

\* C11: for every date, generate_expected_start_times returns 48 instants,
\* each 30 minutes after the one before, from the UTC midnight of the date to
\* its 23:30.
C11_GridShape ==
    pc = "grid_done" =>
        /\ Len(expected_start_times) = 48
        /\ \A i \in 1..(Len(expected_start_times) - 1) :
              expected_start_times[i + 1] = expected_start_times[i] + 30
        /\ expected_start_times[1] = UtcMidnight(date)
        /\ expected_start_times[Len(expected_start_times)] = UtcMidnight(date) + 23 * 60 + 30

\* C11 witness: the grid of 2024-02-29 has been generated.
C11_Witness ==
    /\ pc = "grid_done"
    /\ date = <<"2", "0", "2", "4", "-", "0", "2", "-", "2", "9">>
    /\ Len(expected_start_times) = 48

\* the grid instants the primary batch does not hold
Missing == Grid \ StartTimes(input_df)

\* the instants at which the records of a batch, as the source sent it, start
BatchStartTimes(batch) ==
    {to_datetime(batch.rows[i]["startTime"]) : i \in DOMAIN batch.rows}

\* C12: when the primary batch has missing grid instants and both neighbour
\* fetches succeed, the periods kept from D-1 start at exactly the missing
\* instants the D-1 batch holds, and the returned series starts at exactly the
\* primary batch's instants within Grid(D), the instants kept from D-1 and the
\* missing instants the D+1 batch holds; it is complete whenever these
\* neighbours hold all missing instants.
C12_GapFillingComplete ==
    [][/\ (pc = "add_missing" /\ pc' = "yesterday_done") =>
              StartTimes(misplaced_periods_yesterday') =
                  Missing \cap BatchStartTimes(response'.data)
       /\ (pc = "yesterday_done" /\ pc' = "reconciled" /\ fetched'[3].outcome = "data") =>
              /\ StartTimes(df') =
                     (StartTimes(input_df) \cap Grid)
                         \cup StartTimes(misplaced_periods_yesterday)
                         \cup (Missing \cap BatchStartTimes(response'.data))
              /\ Missing \subseteq (StartTimes(misplaced_periods_yesterday)
                                        \cup BatchStartTimes(response'.data))
                     => StartTimes(df') = Grid]_vars

\* C12 witness: the primary batch lacks two grid instants, D-1 holds one of
\* them and D+1 the other, and the returned series holds all 48.
C12_Witness ==
    /\ pc = "reconciled"
    /\ Len(fetched) = 3
    /\ fetched[2].outcome = "data"
    /\ fetched[3].outcome = "data"
    /\ Cardinality(Missing) = 2
    /\ Len(misplaced_periods_yesterday.rows) = 1
    /\ Cardinality(Missing \cap BatchStartTimes(response.data)) = 1
    /\ StartTimes(misplaced_periods_yesterday) \cap BatchStartTimes(response.data) = {}
    /\ StartTimes(df) = Grid

\* the fields an analytics operation sets on the records of its argument
FieldsSet(operation) ==
    CASE operation = "calculate_total_imbalance_cost" -> {"ImbalanceCost"}
      [] operation = "generate_max_net_abs_imbalance_volume_hour" ->
            {"Hour", "absNetImbalanceVolume"}
      [] OTHER -> {}

\* the value an analytics operation gives to a field it sets
FieldValue(field, row) ==
    CASE field = "ImbalanceCost" -> PerPeriodCost(row)
      [] field = "Hour" -> (row["startTime"] % (24 * 60)) \div 60
      [] field = "absNetImbalanceVolume" ->
            IF row["netImbalanceVolume"] < 0
            THEN 0 - row["netImbalanceVolume"] ELSE row["netImbalanceVolume"]

CivilOf(s) ==
    <<1000 * DigitValue(s[1]) + 100 * DigitValue(s[2])
          + 10 * DigitValue(s[3]) + DigitValue(s[4]),
      10 * DigitValue(s[6]) + DigitValue(s[7]),
      10 * DigitValue(s[9]) + DigitValue(s[10])>>

\* the day before and the day after <<y, m, d>>, by the calendar's rules
DayBefore(ymd) ==
    IF ymd[3] > 1 THEN <<ymd[1], ymd[2], ymd[3] - 1>>
    ELSE IF ymd[2] > 1 THEN <<ymd[1], ymd[2] - 1, MonthLength(ymd[1], ymd[2] - 1)>>
    ELSE <<ymd[1] - 1, 12, 31>>

DayAfter(ymd) ==
    IF ymd[3] < MonthLength(ymd[1], ymd[2]) THEN <<ymd[1], ymd[2], ymd[3] + 1>>
    ELSE IF ymd[2] < 12 THEN <<ymd[1], ymd[2] + 1, 1>>
    ELSE <<ymd[1] + 1, 1, 1>>

IsDateString(s) ==
    /\ Len(s) = 10
    /\ s[5] = "-" /\ s[8] = "-"
    /\ \A i \in {1, 2, 3, 4, 6, 7, 9, 10} : s[i] \in Range(DigitChars)

\* C14: at most three fetches are issued, one after another: the first for
\* D, the second for D-1, the third for D+1, no date twice and no other date.
C14_FetchOrder ==
    /\ Len(fetched) <= 3
    /\ \A i \in DOMAIN fetched : IsDateString(fetched[i].date)
    /\ Len(fetched) >= 1 => fetched[1].date = date
    /\ Len(fetched) >= 2 => CivilOf(fetched[2].date) = DayBefore(CivilOf(date))
    /\ Len(fetched) >= 3 => CivilOf(fetched[3].date) = DayAfter(CivilOf(date))
    /\ \A i, j \in DOMAIN fetched : i # j => fetched[i].date # fetched[j].date

\* C14 witness: for 2024-03-01 the three fetches were issued, the second for
\* 2024-02-29 and the third for 2024-03-02.
C14_Witness ==
    /\ Len(fetched) = 3
    /\ CivilOf(date) = <<2024, 3, 1>>
    /\ CivilOf(fetched[2].date) = <<2024, 2, 29>>
    /\ CivilOf(fetched[3].date) = <<2024, 3, 2>>

====
